---- MODULE Spec2Model ----
(***************************************************************************)
(* Model of the cross-account CI/CD bootstrap (automate_deployment.sh),    *)
(* its teardown (clean.sh) and the role ARNs the CDK pipeline stack        *)
(* references (lib/pipeline-stack.ts).                                     *)
(*                                                                         *)
(* A text file is a sequence of lines; a line is a sequence of pieces; a   *)
(* piece is either a whitespace run (WS) or a token.  The empty line is    *)
(* <<>>.  Shell background jobs (`cmd &`) are separate processes whose     *)
(* return is its own action; the script never waits for them.              *)
(***************************************************************************)
EXTENDS Naturals, Sequences, FiniteSets

VARIABLES
  TOOLS_ACCOUNT_ID, UAT_ACCOUNT_ID, PROD_ACCOUNT_ID, \* environment of the run
  pc,              \* position of automate_deployment.sh (line about to run)
  job,             \* the eight `aws cloudformation deploy` role calls
  repoDeploy,      \* `cdk deploy RepositoryStack`
  pipeDeploy,      \* `npx cdk deploy CrossAccountPipelineStack`
  CDK_OUTPUT_FILE, \* contents of .cdk_output
  cfn_outputs,     \* contents of .cfn_outputs
  KEY_ARN,         \* shell variable KEY_ARN, as its lines
  push,            \* the `git push` of line 118
  roleKey,         \* cloud: per role stack, "absent", "nokey" or the key granted
  artifactKey,     \* cloud: ARN of the key of CrossAccountPipelineStack, or "none"
  repoStack,       \* cloud: RepositoryStack is applied
  appStack,        \* cloud: per profile, the application stack the pipeline deployed exists
  bucketEmpty,     \* cloud: the artifact bucket holds no object
  tpc,             \* position of clean.sh
  tjob,            \* the calls of clean.sh
  previous,        \* what earlier runs of the scripts left behind
  origin,          \* git: the remote `origin` of the working tree
  pushedTo,        \* git: the remote that the push of line 118 went to
  pipelineAccount, \* cloud: the account CrossAccountPipelineStack is deployed in
  stageStatus,     \* cloud: the stages of the run of CrossAccountPipeline
  assumed,         \* cloud: per stage, the roles its action was given to assume
  dupError         \* cloud: a stack creation was refused, the stack existing

vars == <<TOOLS_ACCOUNT_ID, UAT_ACCOUNT_ID, PROD_ACCOUNT_ID, pc, job, repoDeploy,
          pipeDeploy, CDK_OUTPUT_FILE, cfn_outputs, KEY_ARN, push, roleKey,
          artifactKey, repoStack, appStack,
          bucketEmpty, tpc, tjob, previous, origin, pushedTo, pipelineAccount,
          stageStatus, assumed, dupError>>

envVars == <<TOOLS_ACCOUNT_ID, UAT_ACCOUNT_ID, PROD_ACCOUNT_ID, previous>>
gitVars == <<origin, pushedTo>>
pipelineVars == <<pipelineAccount, stageStatus, assumed>>
fileVars == <<CDK_OUTPUT_FILE, cfn_outputs, KEY_ARN>>
cloudVars == <<roleKey, artifactKey, repoStack, appStack, bucketEmpty>>
bootVars == <<pc, job, repoDeploy, pipeDeploy, push>>
teardownVars == <<tpc, tjob>>

-----------------------------------------------------------------------------
(* Bounds *)

\* longest text the extraction is checked on, in lines
MaxLines == 3

-----------------------------------------------------------------------------
(* Text: pieces, lines, the two regular expressions of lines 79-80 *)

WS == " "

\* tokens that contain the substring `Outputs:`
OutputsTokens == {"Outputs:"}
\* tokens that contain the substring `KeyArn`
KeyArnTokens == {"CrossAccountPipelineStack.ArtifactBucketEncryptionKeyArn", "KeyArn"}

\* the key ARNs the provisioning engine may assign to the artifact key
Keys == {"arn:aws:kms:key/1", "arn:aws:kms:key/2"}

\* awk's fields of a line with FS = " ": the pieces that are not whitespace
Fields(line) == SelectSeq(line, LAMBDA p : p # WS)

\* sed address /Outputs:/
MatchesOutputs(line) == \E i \in DOMAIN line : line[i] \in OutputsTokens
\* sed address /^$/
IsBlank(line) == line = <<>>
\* awk pattern /KeyArn/
MatchesKeyArn(line) == \E i \in DOMAIN line : line[i] \in KeyArnTokens
\* awk $3: the third field, the empty string when the line has fewer
Field3(line) == IF Len(Fields(line)) >= 3 THEN Fields(line)[3] ELSE ""

\* mutant: sed without the address range, every line is printed
SedStepNoRange(st, line) == [inRange |-> FALSE, out |-> Append(st.out, line)]

\* One line of `sed -n -e '/Outputs:/,/^$/ p'`: st = [inRange, out].  Outside a
\* range a line matching the first address opens one and is printed; inside, the
\* line is printed and a blank line closes the range.
SedStep(st, line) ==
  IF st.inRange
    THEN [inRange |-> ~IsBlank(line), out |-> Append(st.out, line)]
    ELSE IF MatchesOutputs(line)
      THEN [inRange |-> TRUE, out |-> Append(st.out, line)]
      ELSE st

RECURSIVE SedFrom(_, _, _)
SedFrom(text, i, st) ==
  IF i > Len(text) THEN st.out ELSE SedFrom(text, i + 1, SedStep(st, text[i]))

\* sed -n -e '/Outputs:/,/^$/ p' ${CDK_OUTPUT_FILE}
SedOutputs(text) == SedFrom(text, 1, [inRange |-> FALSE, out |-> <<>>])

\* awk -F " " '/KeyArn/ { print $3 }': one output line per matching line
RECURSIVE AwkKeyArn(_)
AwkKeyArn(text) ==
  IF text = <<>> THEN <<>>
  ELSE IF MatchesKeyArn(Head(text))
    THEN <<Field3(Head(text))>> \o AwkKeyArn(Tail(text))
    ELSE AwkKeyArn(Tail(text))

\* $( ... ): command substitution drops the trailing newlines of the output
RECURSIVE StripTrailing(_)
StripTrailing(ls) ==
  IF ls # <<>> /\ ls[Len(ls)] = ""
    THEN StripTrailing(SubSeq(ls, 1, Len(ls) - 1)) ELSE ls

\* KEY_ARN=$(awk -F " " '/KeyArn/ { print $3 }' .cfn_outputs)
KeyArnOf(outputs) == StripTrailing(AwkKeyArn(outputs))

\* mutant: -n for -z
KeyArnEmptyInverted(k) == k # <<>>
\* [[ -z "${KEY_ARN}" ]]
KeyArnEmpty(k) == k = <<>>

\* KeyArn=${KEY_ARN}, unquoted: the value of the KeyArn override is what stands
\* before the first newline of KEY_ARN
KeyArnParam(k) == IF k = <<>> THEN "" ELSE Head(k)

-----------------------------------------------------------------------------
(* automate_deployment.sh: the role deployments *)

AccountIds == {"111", "222", "333"}

CallStatus == {"none", "running", "ok", "failed"}
Returned(s) == s \in {"ok", "failed"}
Issued(s) == s # "none"

\* lines 36-57, in script order; bg is the trailing `&`
Phase1Calls == <<
  [template |-> "CodePipelineCrossAccountRole.yml", stack |-> "CodePipelineCrossAccountRole",
   profile |-> "uat", stage |-> "Uat", bg |-> TRUE],
  [template |-> "CloudFormationDeploymentRole.yml", stack |-> "CloudFormationDeploymentRole",
   profile |-> "uat", stage |-> "Uat", bg |-> TRUE],
  [template |-> "CodePipelineCrossAccountRole.yml", stack |-> "CodePipelineCrossAccountRole",
   profile |-> "prod", stage |-> "Prod", bg |-> TRUE],
  [template |-> "CloudFormationDeploymentRole.yml", stack |-> "CloudFormationDeploymentRole",
   profile |-> "prod", stage |-> "Prod", bg |-> FALSE] >>

\* mutant: the third call of the second pass goes to the uat profile
Phase2CallsWrongProfile == <<
  [template |-> "CodePipelineCrossAccountRole.yml", stack |-> "CodePipelineCrossAccountRole",
   profile |-> "uat", stage |-> "Uat", bg |-> TRUE],
  [template |-> "CloudFormationDeploymentRole.yml", stack |-> "CloudFormationDeploymentRole",
   profile |-> "uat", stage |-> "Uat", bg |-> TRUE],
  [template |-> "CloudFormationDeploymentRole.yml", stack |-> "CloudFormationDeploymentRole",
   profile |-> "uat", stage |-> "Prod", bg |-> TRUE],
  [template |-> "CodePipelineCrossAccountRole.yml", stack |-> "CodePipelineCrossAccountRole",
   profile |-> "prod", stage |-> "Prod", bg |-> FALSE] >>

\* lines 90-112, in script order
Phase2Calls == <<
  [template |-> "CodePipelineCrossAccountRole.yml", stack |-> "CodePipelineCrossAccountRole",
   profile |-> "uat", stage |-> "Uat", bg |-> TRUE],
  [template |-> "CloudFormationDeploymentRole.yml", stack |-> "CloudFormationDeploymentRole",
   profile |-> "uat", stage |-> "Uat", bg |-> TRUE],
  [template |-> "CloudFormationDeploymentRole.yml", stack |-> "CloudFormationDeploymentRole",
   profile |-> "prod", stage |-> "Prod", bg |-> TRUE],
  [template |-> "CodePipelineCrossAccountRole.yml", stack |-> "CodePipelineCrossAccountRole",
   profile |-> "prod", stage |-> "Prod", bg |-> FALSE] >>

Calls(phase) == IF phase = 1 THEN Phase1Calls ELSE Phase2Calls

JobIds == {1, 2} \X (1..4)
\* the role stack a call targets: the profile's account and the stack name
StackOf(j) == <<Calls(j[1])[j[2]].profile, Calls(j[1])[j[2]].stack>>
RoleStacks == {StackOf(j) : j \in JobIds}

\* the --parameter-overrides of a call: phase 1 passes no KeyArn (lines 40, 46,
\* 51, 57), phase 2 passes KeyArn=${KEY_ARN} (lines 94, 100, 106, 112)
Phase1KeyArn == "unset"
\* mutant: the override is left out of the second pass
Phase2KeyArnLeftOut(k) == "unset"
Phase2KeyArn(k) == KeyArnParam(k)
KeyArnOverride(phase, k) == IF phase = 1 THEN Phase1KeyArn ELSE Phase2KeyArn(k)

\* script positions: the line that issues call j, the position at which the
\* script blocks on a foreground call j, and the line that follows call j
IssueLine(j) ==
  IF j[1] = 1 THEN <<"L36", "L42", "L48", "L53">>[j[2]]
  ELSE <<"L90", "L96", "L102", "L108">>[j[2]]
WaitLine(j) ==
  IF j[1] = 1 THEN <<"L36w", "L42w", "L48w", "L53w">>[j[2]]
  ELSE <<"L90w", "L96w", "L102w", "L108w">>[j[2]]
Following(j) ==
  IF j[2] < 4 THEN IssueLine(<<j[1], j[2] + 1>>)
  ELSE IF j[1] = 1 THEN "L62" ELSE "L116"
\* after `cmd &` the script goes on at once; without `&` it blocks until cmd returns
AfterIssue(j) == IF Calls(j[1])[j[2]].bg THEN Following(j) ELSE WaitLine(j)

NoJob == [status |-> "none", KeyArn |-> "unset"]

\* what the text of `npx cdk deploy CrossAccountPipelineStack ... 2>&1` is: on
\* success the stack's outputs follow an `Outputs:` line, the one CfnOutput
\* (ArtifactBucketEncryptionKeyArn) printed as `<stack>.<output> = <value>`
DeployOutput(ok, key) ==
  IF ok
    THEN << <<"CrossAccountPipelineStack:", WS, "deploying...">>,
            <<>>,
            <<"Outputs:">>,
            <<"CrossAccountPipelineStack.ArtifactBucketEncryptionKeyArn", WS, "=", WS, key>>,
            <<>>,
            <<"Stack", WS, "ARN:">> >>
    ELSE << <<"CrossAccountPipelineStack:", WS, "deploying...">>,
            <<"CrossAccountPipelineStack", WS, "failed:", WS, "Error">> >>

-----------------------------------------------------------------------------
(* automate_deployment.sh: the steps *)

\* mutant: only the tools account is checked, as in clean.sh
PrerequisiteMissingToolsOnly(tools, uat, prod) == tools = ""
\* line 26: [[ -z "${TOOLS_ACCOUNT_ID}" || -z "${UAT_ACCOUNT_ID}" || -z "${PROD_ACCOUNT_ID}" ]]
PrerequisiteMissing(tools, uat, prod) == tools = "" \/ uat = "" \/ prod = ""

\* lines 26-32: exit when a prerequisite account value is not set
CheckPrerequisites ==
  /\ pc = "L26"
  /\ pc' = IF PrerequisiteMissing(TOOLS_ACCOUNT_ID, UAT_ACCOUNT_ID, PROD_ACCOUNT_ID)
             THEN "done" ELSE "L36"
  /\ UNCHANGED <<envVars, gitVars, pipelineVars, dupError, job, repoDeploy,
                 pipeDeploy, fileVars, push, cloudVars, teardownVars>>

\* the provisioning engine refuses an operation on a stack that has another
\* operation in progress
StackBusy(j) == \E o \in JobIds : o # j /\ StackOf(o) = StackOf(j) /\ job[o].status = "running"

\* lines 36-57 and 90-112: issue one `aws cloudformation deploy`
IssueRoleDeploy(j) ==
  /\ pc = IssueLine(j)
  /\ job' = [job EXCEPT ![j] = [status |-> IF StackBusy(j) THEN "failed" ELSE "running",
                                KeyArn |-> KeyArnOverride(j[1], KEY_ARN)]]
  /\ pc' = IF StackBusy(j) THEN Following(j) ELSE AfterIssue(j)
  /\ UNCHANGED <<envVars, gitVars, pipelineVars, dupError, repoDeploy,
                 pipeDeploy, fileVars, push, cloudVars, teardownVars>>

\* create-or-update of a role stack: a KeyArn override sets the parameter, none
\* keeps the value of an existing stack and takes the template default on creation
Applied(old, keyArn) ==
  IF keyArn # "unset" THEN keyArn ELSE IF old = "absent" THEN "nokey" ELSE old

\* mutant: the role stacks are made with `aws cloudformation create-stack`
RoleCommandCreate == "create-stack"
\* the command of lines 36-57 and 90-112: `aws cloudformation deploy`
RoleCommand == "deploy"

\* what the provisioning engine does with a stack in state old: `deploy` creates
\* the stack or updates it, `create-stack` refuses a stack that exists
StackOperation(cmd, old, keyArn) ==
  IF cmd = "create-stack" /\ old # "absent"
    THEN [refused |-> TRUE, state |-> old]
    ELSE [refused |-> FALSE, state |-> Applied(old, keyArn)]

\* a role deployment returns, in the background or the foreground; its exit
\* status is not looked at
RoleDeployReturns(j) ==
  /\ job[j].status = "running"
  /\ \E ok \in BOOLEAN :
       LET op == StackOperation(RoleCommand, roleKey[StackOf(j)], job[j].KeyArn)
       IN /\ job' = [job EXCEPT ![j].status = IF ok /\ ~op.refused THEN "ok" ELSE "failed"]
          /\ roleKey' = IF ok THEN [roleKey EXCEPT ![StackOf(j)] = op.state] ELSE roleKey
          /\ dupError' = (dupError \/ op.refused)
  /\ pc' = IF pc = WaitLine(j) THEN Following(j) ELSE pc
  /\ UNCHANGED <<envVars, gitVars, pipelineVars, repoDeploy, pipeDeploy,
                 fileVars, push, artifactKey, repoStack, appStack, bucketEmpty,
                 teardownVars>>

\* lines 62-65: npm install, npm audit fix, npm run build, cdk synth
BuildApp ==
  /\ pc = "L62"
  /\ pc' = "L66"
  /\ UNCHANGED <<envVars, gitVars, pipelineVars, dupError, job, repoDeploy,
                 pipeDeploy, fileVars, push, cloudVars, teardownVars>>

\* line 66: cdk deploy RepositoryStack, in the foreground
IssueRepositoryDeploy ==
  /\ pc = "L66"
  /\ repoDeploy' = "running"
  /\ pc' = "L66w"
  /\ UNCHANGED <<envVars, gitVars, pipelineVars, dupError, job, pipeDeploy,
                 fileVars, push, cloudVars, teardownVars>>

RepositoryDeployReturns ==
  /\ pc = "L66w"
  /\ \E ok \in BOOLEAN :
       /\ repoDeploy' = IF ok THEN "ok" ELSE "failed"
       /\ repoStack' = (repoStack \/ ok)
  /\ pc' = "L71"
  /\ UNCHANGED <<envVars, gitVars, pipelineVars, dupError, job, pipeDeploy,
                 fileVars, push, roleKey, artifactKey, appStack, bucketEmpty,
                 teardownVars>>

\* mutant: the files of an earlier run are not removed
RemoveOutputFilesSkipped ==
  /\ pc = "L71"
  /\ pc' = "L73"
  /\ UNCHANGED <<envVars, gitVars, pipelineVars, dupError, job, repoDeploy,
                 pipeDeploy, fileVars, push, cloudVars, teardownVars>>

\* lines 71-72: rm -rf ${CDK_OUTPUT_FILE} .cfn_outputs
RemoveOutputFiles ==
  /\ pc = "L71"
  /\ CDK_OUTPUT_FILE' = <<>>
  /\ cfn_outputs' = <<>>
  /\ pc' = "L73"
  /\ UNCHANGED <<envVars, gitVars, pipelineVars, dupError, job, repoDeploy,
                 pipeDeploy, KEY_ARN, push, cloudVars, teardownVars>>

\* line 73: npx cdk deploy CrossAccountPipelineStack, in the foreground
IssuePipelineDeploy ==
  /\ pc = "L73"
  /\ pipeDeploy' = "running"
  /\ pc' = "L73w"
  /\ UNCHANGED <<envVars, gitVars, pipelineVars, dupError, job, repoDeploy,
                 fileVars, push, cloudVars, teardownVars>>

\* the account of the credentials `cdk` runs with.  `—profile pipeline` (lines
\* 66 and 76) starts with a dash that is not `--`, so it is no option and the
\* default credentials are used: those of the tools account when the script is
\* run there, of another account otherwise.
CredentialAccounts == {TOOLS_ACCOUNT_ID, "999"}

\* lines 73-78: the deployment ends; `2>&1 | tee -a` appends its text to the
\* file.  The key is created with the stack and kept by later updates.
PipelineDeployReturns ==
  /\ pc = "L73w"
  /\ \E ok \in BOOLEAN, k \in Keys, account \in CredentialAccounts :
       /\ (artifactKey # "none" /\ ok) => (k = artifactKey /\ account = pipelineAccount)
       /\ pipeDeploy' = IF ok THEN "ok" ELSE "failed"
       /\ artifactKey' = IF ok THEN k ELSE artifactKey
       /\ pipelineAccount' = IF ok THEN account ELSE pipelineAccount
       /\ CDK_OUTPUT_FILE' = CDK_OUTPUT_FILE \o DeployOutput(ok, k)
  /\ pc' = "L79"
  /\ UNCHANGED <<envVars, gitVars, stageStatus, assumed, dupError, job,
                 repoDeploy, cfn_outputs, KEY_ARN, push, roleKey, repoStack,
                 appStack, bucketEmpty, teardownVars>>

\* line 79: sed -n -e '/Outputs:/,/^$/ p' ${CDK_OUTPUT_FILE} > .cfn_outputs
ExtractOutputs ==
  /\ pc = "L79"
  /\ cfn_outputs' = SedOutputs(CDK_OUTPUT_FILE)
  /\ pc' = "L80"
  /\ UNCHANGED <<envVars, gitVars, pipelineVars, dupError, job, repoDeploy,
                 pipeDeploy, CDK_OUTPUT_FILE, KEY_ARN, push, cloudVars,
                 teardownVars>>

\* line 80: KEY_ARN=$(awk -F " " '/KeyArn/ { print $3 }' .cfn_outputs)
ExtractKeyArn ==
  /\ pc = "L80"
  /\ KEY_ARN' = KeyArnOf(cfn_outputs)
  /\ pc' = "L83"
  /\ UNCHANGED <<envVars, gitVars, pipelineVars, dupError, job, repoDeploy,
                 pipeDeploy, CDK_OUTPUT_FILE, cfn_outputs, push, cloudVars,
                 teardownVars>>

\* mutant: an empty KEY_ARN takes down what was deployed before the exit
CheckKeyArnWithRollback ==
  /\ pc = "L83"
  /\ pc' = IF KeyArnEmpty(KEY_ARN) THEN "done" ELSE "L90"
  /\ roleKey' = IF KeyArnEmpty(KEY_ARN) THEN [r \in RoleStacks |-> "absent"] ELSE roleKey
  /\ repoStack' = (repoStack /\ ~KeyArnEmpty(KEY_ARN))
  /\ UNCHANGED <<envVars, gitVars, pipelineVars, dupError, job, repoDeploy,
                 pipeDeploy, fileVars, push, artifactKey, appStack,
                 bucketEmpty, teardownVars>>

\* lines 83-86: exit when KEY_ARN is empty
CheckKeyArn ==
  /\ pc = "L83"
  /\ pc' = IF KeyArnEmpty(KEY_ARN) THEN "done" ELSE "L90"
  /\ UNCHANGED <<envVars, gitVars, pipelineVars, dupError, job, repoDeploy,
                 pipeDeploy, fileVars, push, cloudVars, teardownVars>>

\* git remotes: none, the one the working tree was cloned from, and
\* https://git-codecommit.us-west-2.amazonaws.com/v1/repos/repo-${account}
NoRemote == <<"none">>
CloneRemote == <<"clone">>
CodeCommitRepo(account) == <<"repo-", account>>

\* the repository whose branch `main` the Source stage of the pipeline tracks:
\* codecommit.Repository.fromRepositoryName(..., `repo-${this.account}`)
TrackedRepo(account) == CodeCommitRepo(account)

\* line 116: git init && git branch -m main && git add . && git commit -m ... &&
\* git remote rm origin.  The remote is removed only when every command before
\* it in the && list succeeded; removing a remote that is not there fails and
\* ends the list, which changes nothing.
CommitSource ==
  /\ pc = "L116"
  /\ \E committed \in BOOLEAN :
       origin' = IF committed THEN NoRemote ELSE origin
  /\ pc' = "L117"
  /\ UNCHANGED <<envVars, pushedTo, pipelineVars, dupError, job, repoDeploy,
                 pipeDeploy, fileVars, push, cloudVars, teardownVars>>

\* line 117: git remote add origin .../repo-${TOOLS_ACCOUNT_ID}; it fails and
\* changes nothing when a remote named origin exists
AddRemote ==
  /\ pc = "L117"
  /\ origin' = IF origin = NoRemote THEN CodeCommitRepo(TOOLS_ACCOUNT_ID) ELSE origin
  /\ pc' = "L118"
  /\ UNCHANGED <<envVars, pushedTo, pipelineVars, dupError, job, repoDeploy,
                 pipeDeploy, fileVars, push, cloudVars, teardownVars>>

\* line 118: git config ... && git config ... && git push --set-upstream origin
\* main, in the foreground: the push goes to whatever origin names
IssuePush ==
  /\ pc = "L118"
  /\ \E configured \in BOOLEAN :
       /\ push' = IF configured THEN "running" ELSE push
       /\ pushedTo' = IF configured THEN origin ELSE pushedTo
       /\ pc' = IF configured THEN "L118w" ELSE "L128"
  /\ UNCHANGED <<envVars, origin, pipelineVars, dupError, job, repoDeploy,
                 pipeDeploy, fileVars, cloudVars, teardownVars>>

\* a run of the pipeline that has just started: the first stage (Source) runs
RunStarted == [i \in 1 .. 4 |-> IF i = 1 THEN "running" ELSE "none"]

\* the push ends; when it put commits on `main` of the repository that the
\* deployed pipeline tracks, a run of the pipeline starts with its first stage
PushReturns ==
  /\ pc = "L118w"
  /\ \E ok \in BOOLEAN :
       /\ push' = IF ok THEN "ok" ELSE "failed"
       /\ LET starts == /\ ok
                        /\ pipelineAccount # "none"
                        /\ pushedTo = TrackedRepo(pipelineAccount)
          IN /\ stageStatus' = IF starts THEN RunStarted ELSE stageStatus
             /\ assumed' = IF starts THEN [i \in 1 .. 4 |-> {}] ELSE assumed
  /\ pc' = "L128"
  /\ UNCHANGED <<envVars, gitVars, pipelineAccount, dupError, job, repoDeploy,
                 pipeDeploy, fileVars, cloudVars, teardownVars>>

\* line 128: rm ${CDK_OUTPUT_FILE} .cfn_outputs
CleanUpFiles ==
  /\ pc = "L128"
  /\ CDK_OUTPUT_FILE' = <<>>
  /\ cfn_outputs' = <<>>
  /\ pc' = "done"
  /\ UNCHANGED <<envVars, gitVars, pipelineVars, dupError, job, repoDeploy,
                 pipeDeploy, KEY_ARN, push, cloudVars, teardownVars>>

-----------------------------------------------------------------------------
(* clean.sh *)

\* lines 33-49, in script order; bg is the trailing `&`
TeardownCalls == <<
  [line |-> "T33", cmd |-> "delete-stack", target |-> "UatApplicationDeploymentStack",
   profile |-> "uat", bg |-> TRUE],
  [line |-> "T34", cmd |-> "delete-stack", target |-> "ProdApplicationDeploymentStack",
   profile |-> "prod", bg |-> TRUE],
  [line |-> "T37", cmd |-> "s3 rm", target |-> "artifact-bucket",
   profile |-> "pipeline", bg |-> FALSE],
  [line |-> "T40", cmd |-> "cdk destroy", target |-> "CrossAccountPipelineStack",
   profile |-> "pipeline", bg |-> FALSE],
  [line |-> "T43", cmd |-> "delete-stack", target |-> "CodePipelineCrossAccountRole",
   profile |-> "uat", bg |-> TRUE],
  [line |-> "T44", cmd |-> "delete-stack", target |-> "CodePipelineCrossAccountRole",
   profile |-> "prod", bg |-> TRUE],
  [line |-> "T45", cmd |-> "delete-stack", target |-> "CloudFormationDeploymentRole",
   profile |-> "uat", bg |-> TRUE],
  [line |-> "T46", cmd |-> "delete-stack", target |-> "CloudFormationDeploymentRole",
   profile |-> "prod", bg |-> TRUE],
  [line |-> "T49", cmd |-> "cdk destroy", target |-> "RepositoryStack",
   profile |-> "pipeline", bg |-> FALSE] >>

TeardownIds == DOMAIN TeardownCalls
AppStackCalls == {1, 2}
EmptyBucketCall == 3
PipelineDestroyCall == 4
RoleDeleteCalls == {5, 6, 7, 8}
RepositoryDestroyCall == 9

TWaiting(c) == <<"T33w", "T34w", "T37w", "T40w", "T43w", "T44w", "T45w", "T46w", "T49w">>[c]
TFollowing(c) == IF c < Len(TeardownCalls) THEN TeardownCalls[c + 1].line ELSE "done"
\* mutant: no call is waited for
TAfterIssueAllBackground(c) == TFollowing(c)
TAfterIssue(c) == IF TeardownCalls[c].bg THEN TFollowing(c) ELSE TWaiting(c)
\* mutant: the script stops at the first foreground call that fails
TAfterReturnErrexit(c, ok) == IF ok THEN TFollowing(c) ELSE "done"
\* the script has no `set -e` and tests no exit status: it goes on to the next
\* line whatever the foreground call returned
TAfterReturn(c, ok) == TFollowing(c)

\* lines 26-30: exit when TOOLS_ACCOUNT_ID is not set
TeardownCheck ==
  /\ tpc = "T26"
  /\ tpc' = IF TOOLS_ACCOUNT_ID = "" THEN "done" ELSE "T33"
  /\ UNCHANGED <<envVars, gitVars, pipelineVars, dupError, bootVars, fileVars,
                 cloudVars, tjob>>

\* lines 33-49: issue one call
TeardownIssue(c) ==
  /\ tpc = TeardownCalls[c].line
  /\ tjob' = [tjob EXCEPT ![c] = "running"]
  /\ tpc' = TAfterIssue(c)
  /\ UNCHANGED <<envVars, gitVars, pipelineVars, dupError, bootVars, fileVars,
                 cloudVars>>

\* a stack that holds a non-empty bucket cannot be deleted (comment of line 36)
CanSucceed(c) == c = PipelineDestroyCall => bucketEmpty

\* a call returns, in the background or the foreground; its exit status is not
\* looked at
TeardownReturns(c) ==
  /\ tjob[c] = "running"
  /\ \E ok \in {b \in BOOLEAN : b => CanSucceed(c)} :
       /\ tjob' = [tjob EXCEPT ![c] = IF ok THEN "ok" ELSE "failed"]
       /\ appStack' = IF ok /\ c \in AppStackCalls
                        THEN [appStack EXCEPT ![TeardownCalls[c].profile] = FALSE]
                        ELSE appStack
       /\ bucketEmpty' = (bucketEmpty \/ (ok /\ c = EmptyBucketCall))
       /\ artifactKey' = IF ok /\ c = PipelineDestroyCall THEN "none" ELSE artifactKey
       /\ roleKey' = IF ok /\ c \in RoleDeleteCalls
                       THEN [roleKey EXCEPT ![<<TeardownCalls[c].profile,
                                                TeardownCalls[c].target>>] = "absent"]
                       ELSE roleKey
       /\ repoStack' = (repoStack /\ ~(ok /\ c = RepositoryDestroyCall))
       /\ tpc' = IF tpc = TWaiting(c) THEN TAfterReturn(c, ok) ELSE tpc
  /\ UNCHANGED <<envVars, gitVars, pipelineVars, dupError, bootVars, fileVars>>

\* clean.sh is run on what a bootstrap and the pipeline's runs have deployed
TeardownInit ==
  /\ TOOLS_ACCOUNT_ID \in {"", "111"}
  /\ UAT_ACCOUNT_ID = "222"
  /\ PROD_ACCOUNT_ID = "333"
  /\ pc = "done"
  /\ job = [j \in JobIds |-> NoJob]
  /\ repoDeploy = "none"
  /\ pipeDeploy = "none"
  /\ CDK_OUTPUT_FILE = <<>>
  /\ cfn_outputs = <<>>
  /\ KEY_ARN = <<>>
  /\ push = "none"
  /\ artifactKey \in Keys
  /\ roleKey = [r \in RoleStacks |-> artifactKey]
  /\ repoStack = TRUE
  /\ appStack \in [{"uat", "prod"} -> BOOLEAN]
  /\ bucketEmpty \in BOOLEAN
  /\ tpc = "T26"
  /\ tjob = [c \in TeardownIds |-> "none"]
  /\ previous = "bootstrap"
  /\ origin = CodeCommitRepo("111")
  /\ pushedTo = NoRemote
  /\ pipelineAccount = "111"
  /\ stageStatus = [i \in 1..4 |-> "none"]
  /\ assumed = [i \in 1..4 |-> {}]
  /\ dupError = FALSE

TeardownNext ==
  \/ TeardownCheck
  \/ \E c \in TeardownIds : TeardownIssue(c)
  \/ \E c \in TeardownIds : TeardownReturns(c)

SpecTeardown == TeardownInit /\ [][TeardownNext]_vars

-----------------------------------------------------------------------------
(* automate_deployment.sh, as a whole *)

Init ==
  /\ TOOLS_ACCOUNT_ID \in {"", "111"}
  /\ UAT_ACCOUNT_ID \in {"", "222"}
  /\ PROD_ACCOUNT_ID \in {"", "333"}
  /\ pc = "L26"
  /\ job = [j \in JobIds |-> NoJob]
  /\ repoDeploy = "none"
  /\ pipeDeploy = "none"
  /\ CDK_OUTPUT_FILE = <<>>
  /\ cfn_outputs = <<>>
  /\ KEY_ARN = <<>>
  /\ push = "none"
  /\ roleKey = [r \in RoleStacks |-> "absent"]
  /\ artifactKey = "none"
  /\ repoStack = FALSE
  /\ appStack = [p \in {"uat", "prod"} |-> FALSE]
  /\ bucketEmpty = TRUE
  /\ tpc = "idle"
  /\ tjob = [c \in TeardownIds |-> "none"]
  /\ previous = "nothing"
  /\ origin \in {NoRemote, CloneRemote}
  /\ pushedTo = NoRemote
  /\ pipelineAccount = "none"
  /\ stageStatus = [i \in 1..4 |-> "none"]
  /\ assumed = [i \in 1..4 |-> {}]
  /\ dupError = FALSE

Next ==
  \/ CheckPrerequisites
  \/ \E j \in JobIds : IssueRoleDeploy(j)
  \/ \E j \in JobIds : RoleDeployReturns(j)
  \/ BuildApp
  \/ IssueRepositoryDeploy
  \/ RepositoryDeployReturns
  \/ RemoveOutputFiles
  \/ IssuePipelineDeploy
  \/ PipelineDeployReturns
  \/ ExtractOutputs
  \/ ExtractKeyArn
  \/ CheckKeyArn
  \/ CommitSource
  \/ AddRemote
  \/ IssuePush
  \/ PushReturns
  \/ CleanUpFiles

Spec == Init /\ [][Next]_vars

-----------------------------------------------------------------------------
(* Lines 79-86 on any text: the script from line 79 on, with .cdk_output       *)
(* holding an arbitrary text of at most MaxLines lines                         *)

KeyLine == <<"CrossAccountPipelineStack.ArtifactBucketEncryptionKeyArn", WS, "=", WS,
             "arn:aws:kms:key/1">>
IndentedKeyLine == <<WS, "...", WS, "KeyArn", WS, "arn:aws:kms:key/2", WS, "...">>
ShortKeyLine == <<"KeyArn", WS, "=">>
MarkerKeyLine == <<"Outputs:", WS, "KeyArn", WS, "arn:aws:kms:key/2">>

SampleLines ==
  { <<>>, <<WS>>, <<"Outputs:">>, <<"Stack", WS, "ARN:">>,
    KeyLine, IndentedKeyLine, ShortKeyLine, MarkerKeyLine }

SampleTexts == UNION {[1..n -> SampleLines] : n \in 0..MaxLines}

ExtractInit ==
  /\ TOOLS_ACCOUNT_ID = "111"
  /\ UAT_ACCOUNT_ID = "222"
  /\ PROD_ACCOUNT_ID = "333"
  /\ pc = "L79"
  /\ job = [j \in JobIds |-> NoJob]
  /\ repoDeploy = "none"
  /\ pipeDeploy = "none"
  /\ CDK_OUTPUT_FILE \in SampleTexts
  /\ cfn_outputs = <<>>
  /\ KEY_ARN = <<>>
  /\ push = "none"
  /\ roleKey = [r \in RoleStacks |-> "nokey"]
  /\ artifactKey = "none"
  /\ repoStack = FALSE
  /\ appStack = [p \in {"uat", "prod"} |-> FALSE]
  /\ bucketEmpty = TRUE
  /\ tpc = "idle"
  /\ tjob = [c \in TeardownIds |-> "none"]
  /\ previous = "nothing"
  /\ origin = NoRemote
  /\ pushedTo = NoRemote
  /\ pipelineAccount = "none"
  /\ stageStatus = [i \in 1..4 |-> "none"]
  /\ assumed = [i \in 1..4 |-> {}]
  /\ dupError = FALSE

ExtractNext ==
  \/ ExtractOutputs
  \/ ExtractKeyArn
  \/ CheckKeyArn

SpecExtract == ExtractInit /\ [][ExtractNext]_vars

-----------------------------------------------------------------------------
(* Role identifiers *)

RoleArn(account, roleName) == <<"arn:aws:iam::", account, ":role/", roleName>>

\* the account a CLI profile signs in to: profiles uat, prod and pipeline are
\* set up for the accounts of the three variables (prerequisites, lines 19-20)
ProfileAccount(profile) ==
  IF profile = "uat" THEN UAT_ACCOUNT_ID
  ELSE IF profile = "prod" THEN PROD_ACCOUNT_ID ELSE TOOLS_ACCOUNT_ID

\* the name of the role a role template declares: the role kind, which is also
\* the name of the template file and of the stack
RoleNameOf(call) == call.stack

\* the identifier of the role that a role deployment creates or updates
DeployedRoleArn(call) == RoleArn(ProfileAccount(call.profile), RoleNameOf(call))

\* --context prod-account=${PROD_ACCOUNT_ID} --context uat-account=${UAT_ACCOUNT_ID}
DeployContext == [uat |-> UAT_ACCOUNT_ID, prod |-> PROD_ACCOUNT_ID]

\* app.node.tryGetContext(...) || process.env.CDK_INTEG_ACCOUNT || process.env.CDK_DEFAULT_ACCOUNT
ContextAccount(value, fallback) == IF value # "" THEN value ELSE fallback
uatAccountId == ContextAccount(DeployContext.uat, TOOLS_ACCOUNT_ID)
prodAccountId == ContextAccount(DeployContext.prod, TOOLS_ACCOUNT_ID)

\* the four iam.Role.fromRoleArn of PipelineStack, by stage and role kind
PipelineRoleArns(uat, prod) ==
  [Uat |-> [CloudFormationDeploymentRole |-> RoleArn(uat, "CloudFormationDeploymentRole"),
            CodePipelineCrossAccountRole |-> RoleArn(uat, "CodePipelineCrossAccountRole")],
   Prod |-> [CloudFormationDeploymentRole |-> RoleArn(prod, "CloudFormationDeploymentRole"),
             CodePipelineCrossAccountRole |-> RoleArn(prod, "CodePipelineCrossAccountRole")]]

-----------------------------------------------------------------------------
(* The pipeline CrossAccountPipeline *)

NoRole == <<>>

\* mutant: Deploy_Prod is declared before Deploy_Uat
PipelineStagesProdFirst ==
  LET arns == PipelineRoleArns(uatAccountId, prodAccountId)
  IN << [stageName |-> "Source", target |-> "none", stackName |-> "none",
         role |-> NoRole, deploymentRole |-> NoRole],
        [stageName |-> "Build", target |-> "none", stackName |-> "none",
         role |-> NoRole, deploymentRole |-> NoRole],
        [stageName |-> "Deploy_Prod", target |-> "prod",
         stackName |-> "ProdApplicationDeploymentStack",
         role |-> arns.Prod.CodePipelineCrossAccountRole,
         deploymentRole |-> arns.Prod.CloudFormationDeploymentRole],
        [stageName |-> "Deploy_Uat", target |-> "uat",
         stackName |-> "UatApplicationDeploymentStack",
         role |-> arns.Uat.CodePipelineCrossAccountRole,
         deploymentRole |-> arns.Uat.CloudFormationDeploymentRole] >>

\* stages: [...] of new codepipeline.Pipeline, in the order of the array; target
\* is the profile of the account whose stack the stage's action deploys
PipelineStages ==
  LET arns == PipelineRoleArns(uatAccountId, prodAccountId)
  IN << [stageName |-> "Source", target |-> "none", stackName |-> "none",
         role |-> NoRole, deploymentRole |-> NoRole],
        [stageName |-> "Build", target |-> "none", stackName |-> "none",
         role |-> NoRole, deploymentRole |-> NoRole],
        [stageName |-> "Deploy_Uat", target |-> "uat",
         stackName |-> "UatApplicationDeploymentStack",
         role |-> arns.Uat.CodePipelineCrossAccountRole,
         deploymentRole |-> arns.Uat.CloudFormationDeploymentRole],
        [stageName |-> "Deploy_Prod", target |-> "prod",
         stackName |-> "ProdApplicationDeploymentStack",
         role |-> arns.Prod.CodePipelineCrossAccountRole,
         deploymentRole |-> arns.Prod.CloudFormationDeploymentRole] >>

\* the positions of the four stages in the array
StageIds == 1 .. 4
StageIndex(name) == CHOOSE i \in StageIds : PipelineStages[i].stageName = name

\* the cross-account roles of a stage's action: role and deploymentRole
ActionRoles(i) == {PipelineStages[i].role, PipelineStages[i].deploymentRole} \ {NoRole}

\* a role stack that is deployed and declares the role of this identifier
RoleStackOf(arn) ==
  {StackOf(j) : j \in {o \in JobIds : DeployedRoleArn(Calls(o[1])[o[2]]) = arn}}

\* a role can be assumed when a stack declaring it is deployed, and it reads the
\* artifacts when that stack was given the key of the artifact bucket
RoleUsable(arn) ==
  \E r \in RoleStackOf(arn) : roleKey[r] # "absent" /\ roleKey[r] = artifactKey

\* an action of a deploy stage needs both of its roles
StageCanSucceed(i) == \A arn \in ActionRoles(i) : RoleUsable(arn)

RunEnded ==
  \/ \E i \in StageIds : stageStatus[i] = "failed"
  \/ \A i \in StageIds : stageStatus[i] = "ok"

\* CodeCommitSourceAction on branch main: a later commit on the tracked branch
\* starts the next run, from the first stage
StartRun ==
  /\ pipelineAccount # "none"
  /\ RunEnded
  /\ stageStatus' = RunStarted
  /\ assumed' = [i \in StageIds |-> {}]
  /\ UNCHANGED <<envVars, gitVars, pipelineAccount, dupError, bootVars,
                 fileVars, cloudVars, teardownVars>>

\* a stage starts when every stage declared before it has succeeded
StageStarts(i) ==
  /\ i > 1
  /\ stageStatus[i] = "none"
  /\ \A k \in 1 .. (i - 1) : stageStatus[k] = "ok"
  /\ stageStatus' = [stageStatus EXCEPT ![i] = "running"]
  /\ assumed' = [assumed EXCEPT ![i] = ActionRoles(i)]
  /\ UNCHANGED <<envVars, gitVars, pipelineAccount, dupError, bootVars,
                 fileVars, cloudVars, teardownVars>>

\* a stage ends.  Source and Build put their output artifacts in the artifact
\* bucket; a deploy stage creates or updates the stack named by stackName in
\* the account of its roles.  A failed stage ends the run.
StageReturns(i) ==
  /\ stageStatus[i] = "running"
  /\ \E ok \in BOOLEAN :
       /\ ok => StageCanSucceed(i)
       /\ stageStatus' = [stageStatus EXCEPT ![i] = IF ok THEN "ok" ELSE "failed"]
       /\ bucketEmpty' = (bucketEmpty /\ ~(ok /\ PipelineStages[i].target = "none"))
       /\ appStack' = IF ok /\ PipelineStages[i].target # "none"
                        THEN [appStack EXCEPT ![PipelineStages[i].target] = TRUE]
                        ELSE appStack
  /\ UNCHANGED <<envVars, gitVars, pipelineAccount, assumed, dupError,
                 bootVars, fileVars, roleKey, artifactKey, repoStack,
                 teardownVars>>

\* after a bootstrap that deployed the pipeline and pushed: the first run has
\* started; each role stack is missing, deployed without the key, or deployed
\* with it
PipelineInit ==
  /\ TOOLS_ACCOUNT_ID = "111"
  /\ UAT_ACCOUNT_ID = "222"
  /\ PROD_ACCOUNT_ID = "333"
  /\ pc = "done"
  /\ job = [j \in JobIds |-> NoJob]
  /\ repoDeploy = "ok"
  /\ pipeDeploy = "ok"
  /\ CDK_OUTPUT_FILE = <<>>
  /\ cfn_outputs = <<>>
  /\ artifactKey \in Keys
  /\ KEY_ARN = <<artifactKey>>
  /\ push = "ok"
  /\ roleKey \in [RoleStacks -> {"absent", "nokey", artifactKey}]
  /\ repoStack = TRUE
  /\ appStack = [p \in {"uat", "prod"} |-> FALSE]
  /\ bucketEmpty = TRUE
  /\ tpc = "idle"
  /\ tjob = [c \in TeardownIds |-> "none"]
  /\ previous = "bootstrap"
  /\ origin = CodeCommitRepo(TOOLS_ACCOUNT_ID)
  /\ pushedTo = origin
  /\ pipelineAccount = TOOLS_ACCOUNT_ID
  /\ stageStatus = RunStarted
  /\ assumed = [i \in 1..4 |-> {}]
  /\ dupError = FALSE

PipelineNext ==
  \/ StartRun
  \/ \E i \in StageIds : StageStarts(i)
  \/ \E i \in StageIds : StageReturns(i)

SpecPipeline == PipelineInit /\ [][PipelineNext]_vars

-----------------------------------------------------------------------------
(* automate_deployment.sh run again: the run starts from what earlier runs of  *)
(* the two scripts left in the accounts and in the working directory           *)

\* the key that the pipeline stack of the earlier run made
EarlierKey == "arn:aws:kms:key/1"

\* completed:   the earlier run reached line 128 with every deployment done
\* aborted:     the earlier run took the exit of line 85, its pipeline
\*              deployment having failed; lines 127-128 were not reached
\* cleaned:     the earlier run was stopped between lines 80 and 128, and
\*              clean.sh then deleted the stacks; clean.sh does not touch
\*              .cdk_output and .cfn_outputs
Leftovers ==
  { [previous |-> "completed",
     roleKey |-> [r \in RoleStacks |-> EarlierKey], artifactKey |-> EarlierKey,
     repoStack |-> TRUE, CDK_OUTPUT_FILE |-> <<>>,
     origin |-> CodeCommitRepo("111"), pipelineAccount |-> "111"],
    [previous |-> "aborted",
     roleKey |-> [r \in RoleStacks |-> "nokey"], artifactKey |-> "none",
     repoStack |-> TRUE, CDK_OUTPUT_FILE |-> DeployOutput(FALSE, EarlierKey),
     origin |-> CloneRemote, pipelineAccount |-> "none"],
    [previous |-> "cleaned",
     roleKey |-> [r \in RoleStacks |-> "absent"], artifactKey |-> "none",
     repoStack |-> FALSE, CDK_OUTPUT_FILE |-> DeployOutput(TRUE, EarlierKey),
     origin |-> CloneRemote, pipelineAccount |-> "none"] }

RerunInit ==
  /\ TOOLS_ACCOUNT_ID \in {"", "111"}
  /\ UAT_ACCOUNT_ID = "222"
  /\ PROD_ACCOUNT_ID = "333"
  /\ pc = "L26"
  /\ job = [j \in JobIds |-> NoJob]
  /\ repoDeploy = "none"
  /\ pipeDeploy = "none"
  /\ KEY_ARN = <<>>
  /\ push = "none"
  /\ \E left \in Leftovers :
       /\ previous = left.previous
       /\ roleKey = left.roleKey
       /\ artifactKey = left.artifactKey
       /\ repoStack = left.repoStack
       /\ CDK_OUTPUT_FILE = left.CDK_OUTPUT_FILE
       /\ cfn_outputs = SedOutputs(left.CDK_OUTPUT_FILE)
       /\ origin = left.origin
       /\ pipelineAccount = left.pipelineAccount
  /\ appStack = [p \in {"uat", "prod"} |-> FALSE]
  /\ bucketEmpty = TRUE
  /\ tpc = "idle"
  /\ tjob = [c \in TeardownIds |-> "none"]
  /\ pushedTo = NoRemote
  /\ stageStatus = [i \in 1..4 |-> "none"]
  /\ assumed = [i \in 1..4 |-> {}]
  /\ dupError = FALSE

SpecRerun == RerunInit /\ [][Next]_vars

-----------------------------------------------------------------------------
(* Properties *)

AllAccountIdsSet == TOOLS_ACCOUNT_ID # "" /\ UAT_ACCOUNT_ID # "" /\ PROD_ACCOUNT_ID # ""
Phase1Jobs == {<<1, i>> : i \in 1..4}
Phase2Jobs == {<<2, i>> : i \in 1..4}

\* C1: when one of TOOLS_ACCOUNT_ID, UAT_ACCOUNT_ID, PROD_ACCOUNT_ID is unset or
\* empty, the script is before its check or has ended, no role, repository or
\* pipeline deployment and no push has been issued, no file has been written
\* and nothing is deployed.
C1_NoCallWithoutAccountIds ==
  ~AllAccountIdsSet =>
    /\ pc \in {"L26", "done"}
    /\ \A j \in JobIds : job[j] = NoJob
    /\ repoDeploy = "none" /\ pipeDeploy = "none" /\ push = "none"
    /\ CDK_OUTPUT_FILE = <<>> /\ cfn_outputs = <<>> /\ KEY_ARN = <<>>
    /\ \A r \in RoleStacks : roleKey[r] = "absent"
    /\ artifactKey = "none" /\ ~repoStack

C1_Witness ==
  /\ pc = "done"
  /\ TOOLS_ACCOUNT_ID = "111" /\ UAT_ACCOUNT_ID = "" /\ PROD_ACCOUNT_ID = "333"

\* C2 (as claimed): the Repository stack deployment, and so the pipeline stack
\* deployment after it, is started only when all four phase-1 role deployments
\* have reported success.
C2_Phase1Barrier ==
  Issued(repoDeploy) => \A j \in Phase1Jobs : job[j].status = "ok"

\* C3 (as claimed): once the push is issued, the four phase-2 role deployments
\* have succeeded and every role stack carries the decrypt permission on the
\* artifact key.
C3_PushAfterRolesUpdated ==
  Issued(push) =>
    /\ \A j \in Phase2Jobs : job[j].status = "ok"
    /\ artifactKey \in Keys
    /\ \A r \in RoleStacks : roleKey[r] = artifactKey

\* C4 (as claimed): the push is issued only if every earlier deployment
\* succeeded and the extracted key is not empty.
C4_PushOnlyAfterSuccess ==
  Issued(push) =>
    /\ \A j \in JobIds : job[j].status = "ok"
    /\ repoDeploy = "ok"
    /\ pipeDeploy = "ok"
    /\ KEY_ARN # <<>>

\* C5: while the extracted key is empty no phase-2 role deployment and no push
\* has been issued, and once the check of line 83 has seen an empty key the
\* script has ended.
C5_HaltOnEmptyKey ==
  KEY_ARN = <<>> =>
    /\ \A j \in Phase2Jobs : job[j] = NoJob
    /\ push = "none"
    /\ pc \in {"L26", "L36", "L36w", "L42", "L42w", "L48", "L48w", "L53", "L53w",
               "L62", "L66", "L66w", "L71", "L73", "L73w", "L79", "L80", "L83", "done"}

C5_Witness ==
  /\ pc = "done"
  /\ AllAccountIdsSet
  /\ Returned(pipeDeploy)
  /\ KEY_ARN = <<>>

\* the third whitespace-delimited token of a line, "" when it has fewer
ThirdToken(line) ==
  LET at == {p \in DOMAIN line :
               line[p] # WS /\ Cardinality({q \in 1..(p - 1) : line[q] # WS}) = 2}
  IN IF at = {} THEN "" ELSE line[CHOOSE p \in at : TRUE]

\* line i of text lies between a line holding `Outputs:` and the next blank
\* line, both included
InOutputsSection(text, i) ==
  \E m \in 1..i :
    /\ \E p \in DOMAIN text[m] : text[m][p] = "Outputs:"
    /\ \A n \in m..(i - 1) : text[n] # <<>>

\* the lines of the Outputs sections of text that carry the KeyArn label
LabelledLines(text) ==
  {i \in DOMAIN text :
     /\ InOutputsSection(text, i)
     /\ \E p \in DOMAIN text[i] : text[i][p] \in KeyArnTokens}

\* C6: for every text, once KEY_ARN is assigned it holds the third tokens of the
\* labelled lines of the Outputs sections, in order, and of no other line: it
\* is empty when no line of a section carries the label, and it is exactly the
\* third token of the labelled line when there is one (empty when that line has
\* no third token).
C6_KeyArnExtraction ==
  pc \notin {"L79", "L80"} =>
    LET text == CDK_OUTPUT_FILE
        labelled == LabelledLines(text)
        nth(n) == CHOOSE i \in labelled : Cardinality({l \in labelled : l < i}) = n - 1
    IN /\ labelled = {} => KEY_ARN = <<>>
       /\ \A i \in labelled :
            labelled = {i} =>
              KEY_ARN = IF ThirdToken(text[i]) = "" THEN <<>> ELSE <<ThirdToken(text[i])>>
       /\ Len(KEY_ARN) <= Cardinality(labelled)
       /\ \A n \in DOMAIN KEY_ARN : KEY_ARN[n] = ThirdToken(text[nth(n)])
       /\ \A n \in 1..Cardinality(labelled) :
            ThirdToken(text[nth(n)]) # "" => n <= Len(KEY_ARN)

C6_Witness ==
  /\ pc = "L90"
  /\ Len(CDK_OUTPUT_FILE) = 3
  /\ CDK_OUTPUT_FILE[1] = KeyLine
  /\ CDK_OUTPUT_FILE[2] = <<"Outputs:">>
  /\ CDK_OUTPUT_FILE[3] = IndentedKeyLine
  /\ KEY_ARN = <<"arn:aws:kms:key/2">>

\* C7: every phase-1 role deployment issued carries no KeyArn override; every
\* phase-2 role deployment issued carries the ARN of the key that the pipeline
\* stack deployment of this run reported; a deployment that carries a KeyArn
\* override is issued only after the pipeline stack deployment has returned.
C7_KeyArnOverrides ==
  /\ \A j \in Phase1Jobs : job[j].KeyArn = "unset"
  /\ \A j \in Phase2Jobs :
       Issued(job[j].status) =>
         /\ pipeDeploy = "ok"
         /\ artifactKey \in Keys
         /\ job[j].KeyArn = artifactKey
  /\ \A j \in JobIds : job[j].KeyArn # "unset" => Returned(pipeDeploy)

C7_Witness ==
  /\ \A j \in JobIds : Issued(job[j].status)
  /\ \A j \in Phase2Jobs : job[j].KeyArn = "arn:aws:kms:key/2"

StackIdentity(call) == <<call.profile, call.stack, call.template>>
IssuedIdentities(phase) ==
  {StackIdentity(Calls(phase)[i]) : i \in {n \in 1..4 : Issued(job[<<phase, n>>].status)}}

\* C8: the role stacks re-deployed in phase 2 are role stacks deployed in phase
\* 1, and all of them once the four calls of phase 2 are issued; the role of
\* every issued call has the ARN arn:aws:iam::<account>:role/<role kind> that
\* the pipeline stack resolves for that stage and role kind, in both phases.
C8_SameRolesSameArns ==
  /\ IssuedIdentities(2) \subseteq IssuedIdentities(1)
  /\ (\A j \in Phase2Jobs : Issued(job[j].status)) =>
       IssuedIdentities(1) = IssuedIdentities(2)
  /\ \A j \in JobIds :
       Issued(job[j].status) =>
         LET call == Calls(j[1])[j[2]]
         IN DeployedRoleArn(call) =
              PipelineRoleArns(uatAccountId, prodAccountId)[call.stage][call.stack]

C8_Witness ==
  /\ \A j \in JobIds : Issued(job[j].status)
  /\ pipeDeploy = "ok"

\* C9: once clean.sh has passed its check and lines 33-34, both application
\* stack deletions have been issued, whatever the other returned; when the
\* script ends, every later call has been issued too, whatever failed; and the
\* script is never stuck before its end.
C9_BothDeletionsIssued ==
  /\ (TOOLS_ACCOUNT_ID # "" /\ tpc \notin {"T26", "T33", "T34"}) =>
       \A c \in AppStackCalls : Issued(tjob[c])
  /\ (TOOLS_ACCOUNT_ID # "" /\ tpc = "done") => \A c \in TeardownIds : Issued(tjob[c])
  /\ tpc # "done" => ENABLED TeardownNext

C9_Witness ==
  /\ tpc = "done"
  /\ tjob[1] = "failed"
  /\ tjob[2] = "ok"
  /\ tjob[3] = "failed"
  /\ Issued(tjob[9])

\* C10: the calls of clean.sh are issued in the order of the script: the bucket
\* is emptied after both application stack deletions are issued, the pipeline
\* stack is destroyed after the emptying has returned, a role stack is deleted
\* after the pipeline stack destroy has returned, and the Repository stack is
\* destroyed after the four role stack deletions are issued.
C10_TeardownOrder ==
  /\ Issued(tjob[EmptyBucketCall]) => \A c \in AppStackCalls : Issued(tjob[c])
  /\ Issued(tjob[PipelineDestroyCall]) => Returned(tjob[EmptyBucketCall])
  /\ \A c \in RoleDeleteCalls : Issued(tjob[c]) => Returned(tjob[PipelineDestroyCall])
  /\ Issued(tjob[RepositoryDestroyCall]) => \A c \in RoleDeleteCalls : Issued(tjob[c])

C10_Witness ==
  /\ tpc = "done"
  /\ \A c \in TeardownIds : Returned(tjob[c])
  /\ tjob[PipelineDestroyCall] = "ok"

\* C11: the stages are Source, Build, Deploy_Uat, Deploy_Prod in this order and
\* a stage of a run is entered only when all stages before it have succeeded,
\* so Deploy_Prod only after Deploy_Uat; the action of Deploy_Uat is given the
\* two roles of the UAT account and no other, the action of Deploy_Prod the two
\* roles of the Prod account and no other.
C11_StageOrderAndRoles ==
  /\ [i \in StageIds |-> PipelineStages[i].stageName]
       = <<"Source", "Build", "Deploy_Uat", "Deploy_Prod">>
  /\ \A i \in StageIds :
       stageStatus[i] # "none" => \A k \in 1 .. (i - 1) : stageStatus[k] = "ok"
  /\ stageStatus[StageIndex("Deploy_Prod")] # "none"
       => stageStatus[StageIndex("Deploy_Uat")] = "ok"
  /\ \A i \in StageIds :
       assumed[i] =
         IF stageStatus[i] = "none" \/ PipelineStages[i].target = "none" THEN {}
         ELSE {RoleArn(ProfileAccount(PipelineStages[i].target), "CodePipelineCrossAccountRole"),
               RoleArn(ProfileAccount(PipelineStages[i].target), "CloudFormationDeploymentRole")}
  /\ PipelineStages[StageIndex("Deploy_Uat")].target = "uat"
  /\ PipelineStages[StageIndex("Deploy_Prod")].target = "prod"

C11_Witness ==
  /\ stageStatus[StageIndex("Deploy_Prod")] = "ok"
  /\ appStack["uat"] /\ appStack["prod"]
  /\ assumed[StageIndex("Deploy_Prod")] # {}

\* C14: the push of line 118 goes to repo-${TOOLS_ACCOUNT_ID}, and a run of the
\* pipeline starts only by a push that succeeded on the repository the
\* pipeline tracks.
C14_PushToToolsRepo ==
  /\ push # "none" => pushedTo = CodeCommitRepo(TOOLS_ACCOUNT_ID)
  /\ stageStatus[1] # "none"
       => (push = "ok" /\ pushedTo = TrackedRepo(pipelineAccount))

\* C12: running the role deployments of phase 1 and phase 2 again on stacks
\* that are already applied refuses no creation, and changes a deployed role
\* stack only when a call gives it a key other than the one it has; after a
\* completed run nothing that was deployed changes at all.
C12_RerunIsNoOp ==
  [][ /\ ~dupError'
      /\ \A r \in RoleStacks :
           (roleKey[r] # "absent" /\ roleKey'[r] # roleKey[r])
             => \E j \in JobIds : /\ StackOf(j) = r
                                  /\ job[j].status = "running"
                                  /\ job[j].KeyArn \notin {"unset", roleKey[r]}
      /\ previous = "completed"
           => /\ roleKey' = roleKey
              /\ artifactKey' = artifactKey
              /\ repoStack' = repoStack ]_vars

C12_Witness ==
  /\ previous = "completed"
  /\ pc = "done"
  /\ \A j \in JobIds : job[j].status = "ok"

\* the run has ended by the exit of line 31 or of line 85
EndedInFailure == pc = "done" /\ job[<<2, 1>>].status = "none"

\* C13: no step of the bootstrap removes a stack that is applied, changes the
\* pipeline stack's key or issues a call of the teardown; the step that ends
\* the run in failure changes nothing deployed, and after it every stack that
\* is applied stays as it is.
C13_NoRollback ==
  [][ /\ \A r \in RoleStacks : roleKey[r] # "absent" => roleKey'[r] # "absent"
      /\ artifactKey # "none" => artifactKey' = artifactKey
      /\ repoStack => repoStack'
      /\ tpc' = "idle" /\ \A c \in TeardownIds : tjob'[c] = "none"
      /\ (EndedInFailure' /\ ~EndedInFailure) => cloudVars' = cloudVars
      /\ EndedInFailure
           => /\ \A r \in RoleStacks : roleKey[r] # "absent" => roleKey'[r] = roleKey[r]
              /\ artifactKey' = artifactKey
              /\ repoStack' = repoStack ]_vars

C13_Witness ==
  /\ EndedInFailure
  /\ pipeDeploy = "failed"
  /\ repoStack
  /\ \A r \in RoleStacks : roleKey[r] # "absent"

\* C15: the pipeline deployment starts with .cdk_output removed, and KEY_ARN
\* is the key in the output of this run's pipeline deployment, or empty when
\* that deployment failed, whatever files earlier runs left; the second pass
\* is given no other key.
C15_KeyFromThisRun ==
  /\ pc \in {"L73", "L73w"} => CDK_OUTPUT_FILE = <<>>
  /\ KEY_ARN # <<>> => (pipeDeploy = "ok" /\ KEY_ARN = <<artifactKey>>)
  /\ ( /\ pipeDeploy = "ok"
       /\ pc \in {"L83", "L90", "L96", "L102", "L108", "L108w", "L116", "L117",
                  "L118", "L118w", "L128", "done"} )
       => KEY_ARN = <<artifactKey>>
  /\ \A j \in Phase2Jobs :
       Issued(job[j].status) => (pipeDeploy = "ok" /\ job[j].KeyArn = artifactKey)

C15_Witness ==
  /\ previous = "cleaned"
  /\ artifactKey # EarlierKey
  /\ KEY_ARN = <<artifactKey>>
  /\ \A j \in Phase2Jobs : job[j].status = "ok" /\ job[j].KeyArn = artifactKey

====
